---- MODULE Spec2Model ----
(***************************************************************************)
(* Model of src/app.py: the VehicleDiagnosticSystem object (code table,    *)
(* diagnostics history, report file) and the five Flask routes that use    *)
(* the one module-level instance, system.                                  *)
(*                                                                         *)
(* Python values are records [t |-> type name, s |-> str(value)], a text   *)
(* being a sequence of string fragments, so that truthiness, str() and     *)
(* str.upper() are computed as Python computes them.  A code such as       *)
(* "p0300" is the text <<"p","0","3","0","0">>.                            *)
(*                                                                         *)
(* client (line 19) is the external conversational service.  Each of its   *)
(* operations either returns or raises.  As line 19 is written, client     *)
(* is bound to the value of the API key, on which the first attribute      *)
(* access in get_chatbot_solution raises: that is the "raise" outcome of   *)
(* CreateAssistant below.  The other outcomes are those of a client object *)
(* that implements the operations the code calls.                          *)
(***************************************************************************)
EXTENDS Integers, Sequences, FiniteSets, TLC

\* ------------------------------------------------------------- bounds
\* Diagnose requests issued over one run of the server.
MaxRequests == 2
\* Data rows of the CSV file read at startup.
MaxRows == 2

\* ------------------------------------------------------ Python values
None == [t |-> "NoneType", s |-> <<"None">>]
PyStr(text) == [t |-> "str", s |-> text]
PyInt(text) == [t |-> "int", s |-> text]
PyFloat(text) == [t |-> "float", s |-> text]

\* bool(v)
Truthy(v) ==
  CASE v.t = "NoneType" -> FALSE
    [] v.t = "str" -> v.s # <<>>
    [] v.t = "int" -> v.s # <<"0">>
    [] v.t = "float" -> v.s # <<"0.0">>
    [] OTHER -> TRUE

\* str.upper(), character by character
UpperChar(c) ==
  CASE c = "p" -> "P"
    [] c = "c" -> "C"
    [] c = "b" -> "B"
    [] c = "u" -> "U"
    [] OTHER -> c
Upper(text) == [i \in 1..Len(text) |-> UpperChar(text[i])]

\* An insertion-ordered dict is the sequence of its items.
DictKeys(d) == {d[i].k : i \in 1..Len(d)}
DictGet(d, key, default) ==
  IF key \in DictKeys(d)
    THEN d[CHOOSE i \in 1..Len(d) : d[i].k = key].v
    ELSE default
DictSet(d, key, value) ==
  IF key \in DictKeys(d)
    THEN [i \in 1..Len(d) |-> IF d[i].k = key THEN [k |-> key, v |-> value] ELSE d[i]]
    ELSE Append(d, [k |-> key, v |-> value])

\* --------------------------------------------------------- load_codes
P0300 == <<"P", "0", "3", "0", "0">>
p0300 == <<"p", "0", "3", "0", "0">>
P0420 == <<"P", "0", "4", "2", "0">>
p0420 == <<"p", "0", "4", "2", "0">>

\* Cells the two columns of a data row may hold.
CodeCells == {P0300, p0420}
DescriptionCells == {"Misfire", "0", ""}
CsvRows == [code : CodeCells, description : DescriptionCells]

GoodHeader == {"code", "description"}
BadHeader == {"codigo", "descricao"}

RowSeqs(n) == UNION {[1..m -> CsvRows] : m \in 0..n}

MissingFile == [exists |-> FALSE, header |-> {}, rows |-> <<>>]
CsvFilesUpTo(n) ==
  {MissingFile}
    \cup {[exists |-> TRUE, header |-> BadHeader, rows |-> <<>>]}
    \cup {[exists |-> TRUE, header |-> GoodHeader, rows |-> rs] : rs \in RowSeqs(n)}
CsvFiles == CsvFilesUpTo(MaxRows)

\* pd.read_csv's type inference for the description column: a column of
\* integer literals is int64; integer literals and empty cells (or only empty
\* cells) make float64 with NaN for the empty ones; anything else is an object
\* column of strings, again with NaN for an empty cell.
IsIntCell(cell) == cell = "0"
ColumnDtype(cells) ==
  IF cells # {} /\ \A c \in cells : IsIntCell(c) THEN "int64"
  ELSE IF \A c \in cells : IsIntCell(c) \/ c = "" THEN "float64"
  ELSE "object"
ReadCell(dtype, cell) ==
  CASE dtype = "int64" -> PyInt(<<cell>>)
    [] dtype = "float64" /\ cell = "" -> PyFloat(<<"nan">>)
    [] dtype = "float64" -> PyFloat(<<"0.0">>)
    [] cell = "" -> PyFloat(<<"nan">>)
    [] OTHER -> PyStr(<<cell>>)

\* df = pd.read_csv(csv_file): the rows with the description column typed.
read_csv(csv) ==
  LET dtype == ColumnDtype({csv.rows[i].description : i \in 1..Len(csv.rows)})
  IN [i \in 1..Len(csv.rows) |->
        [code |-> csv.rows[i].code,
         description |-> ReadCell(dtype, csv.rows[i].description)]]

\* dict(zip(df['code'], df['description'])): later rows overwrite earlier ones.
RECURSIVE DictOfRows(_, _)
DictOfRows(df, n) ==
  IF n = 0 THEN <<>>
  ELSE DictSet(DictOfRows(df, n - 1), df[n].code, df[n].description)

\* load_codes raises KeyError when a column is missing (not caught: line 35
\* catches FileNotFoundError only).
load_codes_raises(csv) == csv.exists /\ ~(GoodHeader \subseteq csv.header)
load_codes(csv) ==
  IF ~csv.exists THEN <<>>
  ELSE DictOfRows(read_csv(csv), Len(csv.rows))

\* -------------------------------------------------------- search_code
HitPrefix == "Código: "
HitMiddle == "\nDescrição: "
MissPrefix == "Código "
MissSuffix == " não encontrado."

\* code.upper() raises AttributeError unless code is a str.
search_code_raises(code) == code.t # "str"

\* Line 42 tests the truth value of the description (if description:), so a
\* falsy description takes the else branch, like a missing key.
search_code(table, code) ==
  LET key == Upper(code.s)
      description == DictGet(table, key, None)
  IN IF Truthy(description)
       THEN PyStr(<<HitPrefix>> \o key \o <<HitMiddle>> \o description.s)
       ELSE PyStr(<<MissPrefix>> \o key \o <<MissSuffix>>)

\* ---------------------------------------------------- diagnose_vehicle
diagnostic_methods ==
  << "Verificar a Reclamação",
     "Determinar os Sintomas Relacionados",
     "Analisar os Sintomas Relacionados",
     "Isolar a Área do Problema",
     "Reparar a Área do Problema",
     "Certificar que a Operação Está Adequada" >>

\* A method_choice is an int n or None.
IntChoice(n) == [t |-> "int", n |-> n]
NoChoice == [t |-> "NoneType", n |-> 0]

\* list[i] of Python: a negative i counts from the end; IndexError outside
\* -len .. len-1.
IndexInRange(list, i) == -Len(list) <= i /\ i < Len(list)
ListIndex(list, i) == IF i >= 0 THEN list[i + 1] ELSE list[Len(list) + i + 1]

\* diagnostic_methods[method_choice - 1]
select_method_error(mc) ==
  IF mc.t # "int" THEN "TypeError"
  ELSE IF ~IndexInRange(diagnostic_methods, mc.n - 1) THEN "IndexError"
  ELSE "none"
select_method(mc) == ListIndex(diagnostic_methods, mc.n - 1)

NA == PyStr(<<"N/A">>)
\* self.search_code(dtc_code) if dtc_code else "N/A"
dtc_description_error(dtc_code) ==
  IF Truthy(dtc_code) /\ search_code_raises(dtc_code) THEN "AttributeError" ELSE "none"
dtc_description(table, dtc_code) ==
  IF Truthy(dtc_code) THEN search_code(table, dtc_code) ELSE NA

Item(key, value) == [k |-> key, v |-> value]
\* The diagnosis dict, its items in insertion order.
MakeDiagnosis(table, d) ==
  << Item("Reclamação do Cliente", d.customer_complaint),
     Item("Método de Diagnóstico", PyStr(<<select_method(d.method_choice)>>)),
     Item("Código de Falha", d.dtc_code),
     Item("Descrição do Código", dtc_description(table, d.dtc_code)),
     Item("Sintomas Relacionados", d.related_symptoms),
     Item("Área do Problema", d.problem_area) >>

\* Mutant of list_append: the new entry takes the place of the last one.
list_append_overwrite(history, diagnosis) ==
  IF history = <<>> THEN <<diagnosis>>
  ELSE [history EXCEPT ![Len(history)] = diagnosis]

\* Mutant of list_append: the new entry goes to the front (insert(0, ...)).
list_append_front(history, diagnosis) == <<diagnosis>> \o history

\* self.diagnostics_history.append(diagnosis)
list_append(history, diagnosis) == Append(history, diagnosis)

\* ------------------------------------------------ get_chatbot_solution
Fallback == PyStr(<<"Ocorreu um erro ao processar a solicitação. Tente novamente.">>)

\* re.sub removing the character class of line 114 (asterisk, underscore,
\* hash, grave accent, tilde) from a text of single characters; the grave
\* accent is written GRAVE, as the parser does not take it in a string.
MarkdownChars == {"*", "_", "#", "GRAVE", "~"}
StripMarkdown(text) == SelectSeq(text, LAMBDA c : c \notin MarkdownChars)

\* "\n".join([msg.content[0].text.value for msg in messages
\*            if msg.content[0].type == "text"])
RECURSIVE JoinTexts(_)
JoinTexts(messages) ==
  IF messages = <<>> THEN <<>>
  ELSE LET rest == JoinTexts(Tail(messages))
           textRest == SelectSeq(Tail(messages), LAMBDA m : m.type = "text")
       IN IF Head(messages).type # "text" THEN rest
          ELSE IF textRest = <<>> THEN Head(messages).value
          ELSE Head(messages).value \o <<"\n">> \o rest

Message(type, value) == [type |-> type, value |-> value]
\* What messages.list may return for the thread.
Listings ==
  { << Message("text", <<"*", "o", "k", "*">>) >>,
    << Message("image_file", <<>>),
       Message("text", <<"#", "a">>),
       Message("text", <<"b", "_">>) >> }

\* run.status after create_and_poll
RunStatuses == {"completed", "failed", "expired"}

\* ------------------------------------------------------ generate_report
Banner == "\n--- Relatório de Diagnóstico ---\n"
NoDiagnosisMsg == PyStr(<<"Nenhum diagnóstico disponível para gerar relatório.">>)
SavedMsg == PyStr(<<"Relatório gerado e salvo como 'diagnostic_report.txt'">>)

\* report += f"{key}: {value}\n" for each item, in the dict's order
RECURSIVE ReportLines(_)
ReportLines(items) ==
  IF items = <<>> THEN <<>>
  ELSE <<Head(items).k, ": ">> \o Head(items).v.s \o <<"\n">> \o ReportLines(Tail(items))

\* Mutant of last_diagnosis: the first entry (index 0 for index -1).
first_diagnosis(history) == history[1]

\* self.diagnostics_history[-1]
last_diagnosis(history) == history[Len(history)]
render_report(history) == <<Banner>> \o ReportLines(last_diagnosis(history))

\* Mutant of view_history: all but the latest entry (a slice [:-1]).
view_history_but_last(history) == SubSeq(history, 1, Len(history) - 1)

\* view_history returns the list itself.
view_history(history) == history

\* ---------------------------------------------------------------- state
VARIABLES
  booted,               \* FALSE when VehicleDiagnosticSystem('OBD2.csv') raised
  codes,                \* system.codes
  diagnostics_history,  \* system.diagnostics_history
  owner,                \* history variable: the request that appended each entry
  report_file,          \* diagnostic_report.txt
  resp,                 \* the response of the GET request the last step served
  pc,                   \* where each diagnose request stands
  data,                 \* request.json of each diagnose request in progress
  diagnosis,            \* the local diagnosis of diagnose_vehicle
  assistant,            \* the assistant each request created on the service
  run_status,           \* run.status
  listed,               \* whether messages.list was called
  suggestion,           \* the local suggestion of get_chatbot_solution
  response,             \* the JSON body each diagnose request returned
  error                 \* the exception that ended a request

vars == << booted, codes, diagnostics_history, owner, report_file, resp, pc, data,
           diagnosis, assistant, run_status, listed, suggestion, response, error >>

Requests == 1..MaxRequests

\* Request bodies of POST /diagnose.
MethodChoices == {IntChoice(n) : n \in {-6, 0, 6, 7}} \cup {NoChoice}
DtcCodes == {None, PyStr(p0300), PyInt(<<"5">>)}
RequestData ==
  [customer_complaint : {PyStr(<<"noise">>)},
   method_choice : MethodChoices,
   dtc_code : DtcCodes,
   related_symptoms : {PyStr(<<"vibration">>)},
   problem_area : {PyStr(<<"engine">>)}]
NoData ==
  [customer_complaint |-> None, method_choice |-> NoChoice, dtc_code |-> None,
   related_symptoms |-> None, problem_area |-> None]

\* Query strings of GET /search_code: request.args.get('code') is a str or None.
SearchArgs == {None, PyStr(p0300), PyStr(P0300), PyStr(p0420), PyStr(P0420)}

NoResp ==
  [route |-> "none", arg |-> None, status |-> "none", result |-> None, list |-> <<>>]
NoResponse == [diagnosis |-> <<>>, suggestion |-> None]
Unwritten == [written |-> FALSE, content |-> <<>>]

Ended == {"returned", "raised"}
\* No diagnose request is being handled.
Quiescent == \A r \in Requests : pc[r] \in {"idle"} \cup Ended

\* ----------------------------------------------------------------- Init
\* system = VehicleDiagnosticSystem('OBD2.csv'), the file being one of csvs.
InitFrom(csvs) ==
  /\ \E csv \in csvs :
       /\ booted = ~load_codes_raises(csv)
       /\ codes = IF load_codes_raises(csv) THEN <<>> ELSE load_codes(csv)
  /\ diagnostics_history = <<>>
  /\ owner = <<>>
  /\ report_file = Unwritten
  /\ resp = NoResp
  /\ pc = [r \in Requests |-> "idle"]
  /\ data = [r \in Requests |-> NoData]
  /\ diagnosis = [r \in Requests |-> <<>>]
  /\ assistant = [r \in Requests |-> "none"]
  /\ run_status = [r \in Requests |-> "none"]
  /\ listed = [r \in Requests |-> FALSE]
  /\ suggestion = [r \in Requests |-> None]
  /\ response = [r \in Requests |-> NoResponse]
  /\ error = [r \in Requests |-> "none"]

\* The files the server is started on: none, one with other columns, a single
\* row, and a row whose description is the integer 0.
ServedCsvFiles ==
  { MissingFile,
    [exists |-> TRUE, header |-> BadHeader, rows |-> <<>>],
    [exists |-> TRUE, header |-> GoodHeader,
     rows |-> <<[code |-> P0300, description |-> "Misfire"]>>] }

Init == InitFrom(ServedCsvFiles)
InitLookup == InitFrom(CsvFiles)

\* ------------------------------------------------------- POST /diagnose
\* The request ends with an exception (Flask answers 500); its locals die.
Raise(r, exception) ==
  /\ pc' = [pc EXCEPT ![r] = "raised"]
  /\ error' = [error EXCEPT ![r] = exception]
  /\ data' = [data EXCEPT ![r] = NoData]
  /\ diagnosis' = [diagnosis EXCEPT ![r] = <<>>]
  /\ run_status' = [run_status EXCEPT ![r] = "none"]
  /\ listed' = [listed EXCEPT ![r] = FALSE]
  /\ suggestion' = [suggestion EXCEPT ![r] = None]
  /\ resp' = NoResp

\* Lines 146-68: the route reads the body, diagnose_vehicle selects the method,
\* looks the code up and builds the diagnosis.  Requests are numbered in the
\* order they arrive.
Assemble(r, d) ==
  /\ booted
  /\ pc[r] = "idle"
  /\ IF r = 1 THEN TRUE ELSE pc[r - 1] # "idle"
  /\ IF select_method_error(d.method_choice) # "none"
       THEN /\ Raise(r, select_method_error(d.method_choice))
            /\ UNCHANGED assistant
     ELSE IF dtc_description_error(d.dtc_code) # "none"
       THEN /\ Raise(r, dtc_description_error(d.dtc_code))
            /\ UNCHANGED assistant
     ELSE /\ pc' = [pc EXCEPT ![r] = "append"]
          /\ data' = [data EXCEPT ![r] = d]
          /\ diagnosis' = [diagnosis EXCEPT ![r] = MakeDiagnosis(codes, d)]
          /\ resp' = NoResp
          /\ UNCHANGED << assistant, run_status, listed, suggestion, error >>
  /\ UNCHANGED << booted, codes, diagnostics_history, owner, report_file, response >>

\* Mutant of AppendHistory: the entry is appended a second time.
AppendHistoryTwice(r) ==
  /\ pc[r] = "append"
  /\ diagnostics_history' =
       list_append(list_append(diagnostics_history, diagnosis[r]), diagnosis[r])
  /\ owner' = Append(Append(owner, r), r)
  /\ pc' = [pc EXCEPT ![r] = "create"]
  /\ resp' = NoResp
  /\ UNCHANGED << booted, codes, report_file, data, diagnosis, assistant, run_status,
                  listed, suggestion, response, error >>

\* Line 69.
AppendHistory(r) ==
  /\ pc[r] = "append"
  /\ diagnostics_history' = list_append(diagnostics_history, diagnosis[r])
  /\ owner' = Append(owner, r)
  /\ pc' = [pc EXCEPT ![r] = "create"]
  /\ resp' = NoResp
  /\ UNCHANGED << booted, codes, report_file, data, diagnosis, assistant, run_status,
                  listed, suggestion, response, error >>

\* One call of the service that changes nothing the model tracks: it returns,
\* or it raises and the exception leaves get_chatbot_solution.
ServiceCall(r, at, next) ==
  /\ pc[r] = at
  /\ \E returns \in BOOLEAN :
       IF returns
         THEN /\ pc' = [pc EXCEPT ![r] = next]
              /\ resp' = NoResp
              /\ UNCHANGED << data, diagnosis, run_status, listed, suggestion, error >>
         ELSE Raise(r, "APIError")
  /\ UNCHANGED << booted, codes, diagnostics_history, owner, report_file, assistant,
                  response >>

\* Lines 79-84: client.beta.assistants.create
CreateAssistant(r) ==
  /\ pc[r] = "create"
  /\ \E returns \in BOOLEAN :
       IF returns
         THEN /\ pc' = [pc EXCEPT ![r] = "thread"]
              /\ assistant' = [assistant EXCEPT ![r] = "created"]
              /\ resp' = NoResp
              /\ UNCHANGED << data, diagnosis, run_status, listed, suggestion, error >>
         ELSE /\ Raise(r, "APIError")
              /\ UNCHANGED assistant
  /\ UNCHANGED << booted, codes, diagnostics_history, owner, report_file, response >>

\* Line 86: client.beta.threads.create
CreateThread(r) == ServiceCall(r, "thread", "message")

\* Lines 88-102: client.beta.threads.messages.create
CreateMessage(r) == ServiceCall(r, "message", "run")

\* Mutant of RunAndPoll: the messages are listed whatever the status.
RunAndPollAlwaysLists(r) ==
  /\ pc[r] = "run"
  /\ \/ \E status \in RunStatuses :
          /\ run_status' = [run_status EXCEPT ![r] = status]
          /\ pc' = [pc EXCEPT ![r] = "list"]
          /\ resp' = NoResp
          /\ UNCHANGED << data, diagnosis, listed, suggestion, error >>
     \/ Raise(r, "APIError")
  /\ UNCHANGED << booted, codes, diagnostics_history, owner, report_file, assistant,
                  response >>

\* Lines 104-116: create_and_poll, then the branch on run.status.
RunAndPoll(r) ==
  /\ pc[r] = "run"
  /\ \/ \E status \in RunStatuses :
          /\ run_status' = [run_status EXCEPT ![r] = status]
          /\ IF status = "completed"
               THEN /\ pc' = [pc EXCEPT ![r] = "list"]
                    /\ UNCHANGED suggestion
               ELSE /\ pc' = [pc EXCEPT ![r] = "delete"]
                    /\ suggestion' = [suggestion EXCEPT ![r] = Fallback]
          /\ resp' = NoResp
          /\ UNCHANGED << data, diagnosis, listed, error >>
     \/ Raise(r, "APIError")
  /\ UNCHANGED << booted, codes, diagnostics_history, owner, report_file, assistant,
                  response >>

\* Lines 111-114: messages.list, the join and the re.sub.
ListMessages(r) ==
  /\ pc[r] = "list"
  /\ \/ \E messages \in Listings :
          /\ suggestion' =
               [suggestion EXCEPT ![r] = PyStr(StripMarkdown(JoinTexts(messages)))]
          /\ listed' = [listed EXCEPT ![r] = TRUE]
          /\ pc' = [pc EXCEPT ![r] = "delete"]
          /\ resp' = NoResp
          /\ UNCHANGED << data, diagnosis, run_status, error >>
     \/ Raise(r, "APIError")
  /\ UNCHANGED << booted, codes, diagnostics_history, owner, report_file, assistant,
                  response >>

\* Lines 118-120, 72-75 and 155-156: assistants.delete, then the suggestion is
\* returned, diagnose_vehicle returns the two-key dict and the route sends it.
DeleteAssistant(r) ==
  /\ pc[r] = "delete"
  /\ \/ /\ assistant' = [assistant EXCEPT ![r] = "deleted"]
        /\ response' = [response EXCEPT ![r] =
             [diagnosis |-> diagnosis[r], suggestion |-> suggestion[r]]]
        /\ pc' = [pc EXCEPT ![r] = "returned"]
        /\ data' = [data EXCEPT ![r] = NoData]
        /\ diagnosis' = [diagnosis EXCEPT ![r] = <<>>]
        /\ run_status' = [run_status EXCEPT ![r] = "none"]
        /\ listed' = [listed EXCEPT ![r] = FALSE]
        /\ suggestion' = [suggestion EXCEPT ![r] = None]
        /\ resp' = NoResp
        /\ UNCHANGED error
     \/ /\ Raise(r, "APIError")
        /\ UNCHANGED << assistant, response >>
  /\ UNCHANGED << booted, codes, diagnostics_history, owner, report_file >>

Chat(r) ==
  \/ CreateAssistant(r)
  \/ CreateThread(r)
  \/ CreateMessage(r)
  \/ RunAndPoll(r)
  \/ ListMessages(r)
  \/ DeleteAssistant(r)

\* ------------------------------------------------------------ GET routes
Response(route, arg, status, result, list) ==
  [route |-> route, arg |-> arg, status |-> status, result |-> result, list |-> list]

\* A route that touches neither the requests in progress nor the table.
Serve(r) ==
  /\ booted
  /\ resp' = r
  /\ UNCHANGED << booted, codes, pc, data, diagnosis, assistant, run_status, listed,
                  suggestion, response, error >>

\* Lines 158-164.
SearchCodeRoute(code) ==
  /\ Serve(IF search_code_raises(code)
             THEN Response("search_code", code, "AttributeError", None, <<>>)
             ELSE Response("search_code", code, "ok", search_code(codes, code), <<>>))
  /\ UNCHANGED << diagnostics_history, owner, report_file >>

\* Lines 166-170.
ViewHistoryRoute ==
  /\ Serve(Response("view_history", None, "ok", None, view_history(diagnostics_history)))
  /\ UNCHANGED << diagnostics_history, owner, report_file >>

\* Lines 172-177.
CodesRoute ==
  /\ Serve(Response("codes", None, "ok", None,
                    [i \in 1..Len(codes) |->
                       [code |-> codes[i].k, description |-> codes[i].v]]))
  /\ UNCHANGED << diagnostics_history, owner, report_file >>

\* Mutant of GenerateReportRoute: the reported entry is popped off the history.
GenerateReportRoutePops ==
  /\ diagnostics_history # <<>>
  /\ Serve(Response("generate_report", None, "ok", SavedMsg, <<>>))
  /\ report_file' = [written |-> TRUE, content |-> render_report(diagnostics_history)]
  /\ diagnostics_history' = SubSeq(diagnostics_history, 1, Len(diagnostics_history) - 1)
  /\ owner' = SubSeq(owner, 1, Len(owner) - 1)

\* Lines 126-139 and 180-184.
GenerateReportRoute ==
  /\ IF diagnostics_history = <<>>
       THEN /\ Serve(Response("generate_report", None, "ok", NoDiagnosisMsg, <<>>))
            /\ UNCHANGED report_file
       ELSE /\ Serve(Response("generate_report", None, "ok", SavedMsg, <<>>))
            /\ report_file' =
                 [written |-> TRUE, content |-> render_report(diagnostics_history)]
  /\ UNCHANGED << diagnostics_history, owner >>

\* ------------------------------------------------------- specifications
\* The server with diagnose requests handled one after the other, the GET
\* routes served at any moment.
ServedSearchArgs == {None, PyStr(p0300)}

Next ==
  \/ \E r \in Requests : \E d \in RequestData : Quiescent /\ Assemble(r, d)
  \/ \E r \in Requests : AppendHistory(r)
  \/ \E r \in Requests : Chat(r)
  \/ \E code \in ServedSearchArgs : SearchCodeRoute(code)
  \/ ViewHistoryRoute
  \/ CodesRoute
  \/ GenerateReportRoute

Spec == Init /\ [][Next]_vars

\* Diagnose requests handled in parallel, one thread a request (the threaded
\* server of app.run), in every interleaving of their steps.
ParRequestData ==
  {d \in RequestData :
     /\ d.method_choice \in {IntChoice(6), IntChoice(7)}
     /\ d.dtc_code \in {None, PyStr(p0300)}}

NextPar ==
  \/ \E r \in Requests : \E d \in ParRequestData : Assemble(r, d)
  \/ \E r \in Requests : AppendHistory(r)
  \/ \E r \in Requests : Chat(r)

SpecPar == Init /\ [][NextPar]_vars

\* The code table and its two routes, over every CSV file of the bounds.
NextLookup ==
  \/ \E code \in SearchArgs : SearchCodeRoute(code)
  \/ CodesRoute

SpecLookup == InitLookup /\ [][NextLookup]_vars

\* ================================================================ claims
InChat == {"create", "thread", "message", "run", "list", "delete"}

\* The history entries a request appended.
Entries(r) == {i \in 1..Len(owner) : owner[i] = r}

\* The request got as far as line 69: it is past it, it returned, or one of
\* the service calls raised.
ReachedAppend(r) ==
  \/ pc[r] \in InChat \cup {"returned"}
  \/ pc[r] = "raised" /\ error[r] = "APIError"

RecordKeys ==
  << "Reclamação do Cliente", "Método de Diagnóstico", "Código de Falha",
     "Descrição do Código", "Sintomas Relacionados", "Área do Problema" >>
IsWholeRecord(e) == Len(e) = Len(RecordKeys) /\ \A j \in 1..Len(e) : e[j].k = RecordKeys[j]

\* The report text of an entry, written out line by line.
ExpectedReport(e) ==
  <<"\n--- Relatório de Diagnóstico ---\n">>
    \o <<"Reclamação do Cliente", ": ">> \o e[1].v.s \o <<"\n">>
    \o <<"Método de Diagnóstico", ": ">> \o e[2].v.s \o <<"\n">>
    \o <<"Código de Falha", ": ">> \o e[3].v.s \o <<"\n">>
    \o <<"Descrição do Código", ": ">> \o e[4].v.s \o <<"\n">>
    \o <<"Sintomas Relacionados", ": ">> \o e[5].v.s \o <<"\n">>
    \o <<"Área do Problema", ": ">> \o e[6].v.s \o <<"\n">>

FallbackText == "Ocorreu um erro ao processar a solicitação. Tente novamente."

C2_AssistantDeletedAtEnd ==
  \A r \in Requests : pc[r] \in Ended => assistant[r] # "created"

\* ------------------------------------------------------------------- C3
\* C3: no request whose method_choice is outside 1..6 gets past the method
\* selection (it has no label and no diagnosis record).
C3_OutOfRangeChoiceRejected ==
  \A r \in Requests :
    pc[r] \in {"append"} \cup InChat => data[r].method_choice.n \in 1..6

C5_EveryCallCounted ==
  Quiescent =>
    Len(view_history(diagnostics_history)) = Cardinality({r \in Requests : pc[r] \in Ended})

\* C5 amended: after sequential diagnose calls of which N got as far as the
\* append, the history has length N, its entries are in the order of those
\* calls (so the last one is the latest call's), and the entry of a call that
\* returned is the record it returned.
C5_SequentialCallsInOrder ==
  Quiescent =>
    LET v == view_history(diagnostics_history)
    IN /\ Len(v) = Cardinality({r \in Requests : ReachedAppend(r)})
       /\ Len(v) = Len(owner)
       /\ \A i \in 1..Len(v) :
            /\ ReachedAppend(owner[i])
            /\ \A j \in 1..(i - 1) : owner[j] < owner[i]
            /\ pc[owner[i]] = "returned" => v[i] = response[owner[i]].diagnosis

\* Two calls done, with different records, and the history served.
C5_Witness ==
  /\ Quiescent
  /\ Len(diagnostics_history) = 2
  /\ diagnostics_history[1] # diagnostics_history[2]
  /\ pc[1] = "returned" /\ pc[2] = "returned"
  /\ resp.route = "view_history" /\ resp.list = diagnostics_history

\* ------------------------------------------------------------------- C6
\* C6 as stated: once all the parallel requests have finished, the history
\* holds one entry for each of them.
C6_OneEntryPerRequest ==
  (\A r \in Requests : pc[r] \in Ended) =>
    /\ Len(diagnostics_history) = MaxRequests
    /\ \A r \in Requests : Cardinality(Entries(r)) = 1

\* C6 amended: in every interleaving, the history is at each moment a
\* sequence of whole records, one for each request that has got as far as the
\* append and none for the others, each equal to the record its request built;
\* once all have finished it holds exactly one entry per request that reached
\* the append.
C6_HistoryIntact ==
  /\ Len(diagnostics_history) = Len(owner)
  /\ \A i \in 1..Len(diagnostics_history) : IsWholeRecord(diagnostics_history[i])
  /\ \A r \in Requests :
       /\ Cardinality(Entries(r)) = IF ReachedAppend(r) THEN 1 ELSE 0
       /\ \A i \in Entries(r) :
            /\ pc[r] \in InChat => diagnostics_history[i] = diagnosis[r]
            /\ pc[r] = "returned" => diagnostics_history[i] = response[r].diagnosis
  /\ (\A r \in Requests : pc[r] \in Ended) =>
       Len(diagnostics_history) = Cardinality({r \in Requests : ReachedAppend(r)})

\* All requests finished, the later one having appended first.
C6_Witness ==
  /\ \A r \in Requests : pc[r] = "returned"
  /\ \E i \in 1..Len(owner), j \in 1..Len(owner) : i < j /\ owner[i] > owner[j]

\* ------------------------------------------------------------------- C7
\* C7: search_code answers a code present in the table (after uppercasing)
\* with the hit format and that entry's description, an absent one with the
\* miss format.
C7_PresentCodeFound ==
  (resp.route = "search_code" /\ resp.status = "ok") =>
    LET key == Upper(resp.arg.s)
    IN IF key \in DictKeys(codes)
         THEN resp.result =
                PyStr(<<"Código: ">> \o key \o <<"\nDescrição: ">>
                        \o DictGet(codes, key, None).s)
         ELSE resp.result = PyStr(<<"Código ">> \o key \o <<" não encontrado.">>)

\* ------------------------------------------------------------------- C8
\* What a step may do to the report file, and what the file may hold.
C8_ReportStep ==
  /\ resp'.route = "generate_report" /\ diagnostics_history = <<>> =>
       /\ resp'.result = PyStr(<<"Nenhum diagnóstico disponível para gerar relatório.">>)
       /\ report_file' = report_file
  /\ resp'.route = "generate_report" /\ diagnostics_history # <<>> =>
       /\ report_file'.written
       /\ report_file'.content =
            ExpectedReport(diagnostics_history[Len(diagnostics_history)])
  /\ resp'.route # "generate_report" => report_file' = report_file
C8_ReportFile ==
  IF report_file.written
    THEN \E i \in 1..Len(diagnostics_history) :
           report_file.content = ExpectedReport(diagnostics_history[i])
    ELSE report_file.content = <<>>
\* C8: generate_report on an empty history answers the fixed message and
\* leaves the file alone; on a non-empty one it writes the banner and the six
\* key: value lines of the latest entry; no other step touches the file, which
\* is therefore unwritten or the report of an entry of the history.
C8_ReportIsLatestEntry == [][C8_ReportStep]_vars /\ []C8_ReportFile

\* The file holds the report of the first entry, a different second entry
\* having been appended since.
C8_Witness ==
  /\ report_file.written
  /\ Len(diagnostics_history) = 2
  /\ diagnostics_history[1] # diagnostics_history[2]
  /\ report_file.content = ExpectedReport(diagnostics_history[1])

\* ------------------------------------------------------------------- C9
\* No step takes a request whose run did not complete to an exception.
C9_NoRaiseStep ==
  \A r \in Requests :
    (pc[r] = "delete" /\ run_status[r] # "completed") => pc'[r] # "raised"
C9_FallbackStep ==
  \A r \in Requests :
    /\ (pc[r] = "run" /\ run_status'[r] \in RunStatuses \ {"completed"}) =>
         /\ pc'[r] = "delete"
         /\ suggestion'[r] = PyStr(<<FallbackText>>)
    /\ (pc[r] = "delete" /\ run_status[r] # "completed") =>
         /\ ~listed[r]
         /\ suggestion[r] = PyStr(<<FallbackText>>)
         /\ \/ pc'[r] = "delete"
            \/ /\ pc'[r] = "returned"
               /\ response'[r] =
                    [diagnosis |-> diagnosis[r], suggestion |-> PyStr(<<FallbackText>>)]
               /\ IsWholeRecord(diagnosis[r])
            \/ /\ pc'[r] = "raised"
               /\ response'[r] = NoResponse
IsPrefix(s, t) == Len(s) <= Len(t) /\ \A i \in 1..Len(s) : s[i] = t[i]

\* What a step may do to the history.
C10_AppendOnlyStep ==
  /\ IsPrefix(diagnostics_history, diagnostics_history')
  /\ diagnostics_history' # diagnostics_history =>
       \E r \in Requests :
         /\ pc[r] = "append" /\ pc'[r] = "create"
         /\ diagnostics_history' = diagnostics_history \o <<diagnosis[r]>>
\* C10: every step leaves the history a prefix of what it becomes, and the
\* only step that changes it is the append of a diagnose request, by one entry.
C10_HistoryAppendOnly == [][C10_AppendOnlyStep]_vars

\* Two entries in the history and a report written from it since.
C10_Witness ==
  /\ Len(diagnostics_history) = 2
  /\ resp.route = "generate_report"
  /\ report_file.written

====
